---------------------------- MODULE Spec2Model ----------------------------
(***************************************************************************)
(* A model of local_ai_agent.py: the LocalAIAgent object (conversation     *)
(* context, context file, task routing and executors) and the two front    *)
(* ends that drive it, the console loop of main() and web_interface().     *)
(*                                                                         *)
(* A Python str is modelled as a sequence of one-character strings, so     *)
(* that startswith, split, strip, lower and slicing are computed on the    *)
(* characters. A Python list of str is a sequence of such sequences.       *)
(***************************************************************************)
EXTENDS Integers, Sequences, FiniteSets, TLC

VARIABLES
    mode,          \* "unset" | "console" | "web" | "invalid"   (main, line 157)
    pc,            \* position of the orchestrator, see TypeOK
    context,       \* self.context: list of "You: ..." / "AI: ..." strings
    context_file,  \* the file self.context_file on disk
    enable_tts,    \* web: the "Enable Text-to-Speech" checkbox; console: TRUE
    user_input,    \* the turn's input after voice replacement
    voiced,        \* the turn's input came from speech_to_text
    routed,        \* "none" | "task" | "chat": which branch the turn took
    kind,          \* task kind chosen by perform_task
    argument,      \* the argument perform_task handed to the executor
    output,        \* the output text of the turn
    shown,         \* what the front end displayed for the turn
    displayed,     \* the output text was displayed
    spoken,        \* text_to_speech was called for the output text
    failure,       \* the failure that occurred in the turn, "none" if none
    event,         \* the last step taken
    loaded,        \* number of entries load_context returned
    chat_turns,    \* completed generate_response calls of the session
    window,        \* self.context[-10:] as generate_response rendered it
    full_context,  \* full_context: the text the turn gave to the model
    saves          \* save_context calls of the turn

vars == <<mode, pc, context, context_file, enable_tts, user_input, voiced,
          routed, kind, argument, output, shown, displayed, spoken, failure,
          event, loaded, chat_turns, window, full_context, saves>>

(***************************************************************************)
(* String literals of the program and the input lines of the model.        *)
(***************************************************************************)
TASK_MARKER ==
    <<"t","a","s","k",":"," ">>

PREFIX_SUMMARIZE ==
    <<"s","u","m","m","a","r","i","z","e"," ">>

PREFIX_DRAFT_EMAIL ==
    <<"d","r","a","f","t"," ","e","m","a","i","l"," ">>

PREFIX_GET_WEATHER ==
    <<"g","e","t"," ","w","e","a","t","h","e","r"," ">>

STR_EXIT ==
    <<"e","x","i","t">>

STR_VOICE ==
    <<"v","o","i","c","e">>

ROLE_USER ==
    <<"Y","o","u",":"," ">>

ROLE_AGENT ==
    <<"A","I",":"," ">>

MSG_UNINTELLIGIBLE ==
    <<"S","o","r","r","y",","," ","I"," ","d","i","d","n","'","t"," ","c","a","t","c","h"," ","t","h","a","t",".">>

MSG_NO_SPEECH ==
    <<"N","o"," ","s","p","e","e","c","h"," ","d","e","t","e","c","t","e","d",".">>

MSG_NOT_RECOGNIZED ==
    <<"T","a","s","k"," ","n","o","t"," ","r","e","c","o","g","n","i","z","e","d","."," ","P","l","e","a","s","e"," ","t","r","y"," ","a","g","a","i","n",".">>

MSG_WEATHER_FAILED ==
    <<"U","n","a","b","l","e"," ","t","o"," ","f","e","t","c","h"," ","w","e","a","t","h","e","r"," ","d","a","t","a","."," ","P","l","e","a","s","e"," ","c","h","e","c","k"," ","t","h","e"," ","l","o","c","a","t","i","o","n",".">>

MSG_DRAFTING ==
    <<"D","r","a","f","t","i","n","g"," ","a","n"," ","e","m","a","i","l"," ","b","a","s","e","d"," ","o","n"," ","y","o","u","r"," ","i","n","p","u","t",":"," ">>

MSG_GOODBYE ==
    <<"G","o","o","d","b","y","e","!">>

MSG_WARNING ==
    <<"P","l","e","a","s","e"," ","e","n","t","e","r"," ","a"," ","q","u","e","r","y"," ","o","r"," ","u","s","e"," ","v","o","i","c","e"," ","i","n","p","u","t",".">>

MSG_FILE_OPEN ==
    <<"F","i","l","e"," ","'">>

MSG_FILE_CLOSE ==
    <<"'"," ","n","o","t"," ","f","o","u","n","d",".">>

MSG_SUMMARY ==
    <<"S","u","m","m","a","r","y",":"," ">>

MSG_ELLIPSIS ==
    <<".",".",".">>

MSG_WEATHER_IN ==
    <<"W","e","a","t","h","e","r"," ","i","n"," ">>

MSG_WEATHER_REPORT ==
    <<":"," ","c","l","e","a","r"," ","s","k","y",","," ","2","1"," ","C">>

IN_EMPTY ==
    <<>>

IN_EXIT_UPPER ==
    <<"E","X","I","T">>

IN_VOICE_MIXED ==
    <<"V","o","i","c","e">>

IN_HELLO ==
    <<"h","e","l","l","o">>

IN_BARE_SUMMARIZE ==
    <<"s","u","m","m","a","r","i","z","e"," ","n","o","t","e","s",".","t","x","t">>

IN_CASED_MARKER ==
    <<"T","a","s","k",":"," ","d","a","n","c","e">>

IN_UNSPACED_MARKER ==
    <<"t","a","s","k",":","d","a","n","c","e">>

IN_TASK_SUMMARIZE ==
    <<"t","a","s","k",":"," ","s","u","m","m","a","r","i","z","e"," ","n","o","t","e","s",".","t","x","t">>

IN_TASK_SUMMARIZE_PADDED ==
    <<"t","a","s","k",":"," ","s","u","m","m","a","r","i","z","e"," "," ","n","o","t","e","s",".","t","x","t"," ">>

IN_TASK_SUMMARIZE_MISSING ==
    <<"t","a","s","k",":"," ","s","u","m","m","a","r","i","z","e"," ","m","i","s","s","i","n","g",".","t","x","t">>

IN_TASK_SUMMARIZE_DIR ==
    <<"t","a","s","k",":"," ","s","u","m","m","a","r","i","z","e"," ","d","o","c","s">>

IN_TASK_EMBEDDED ==
    <<"t","a","s","k",":"," ","p","l","e","a","s","e"," ","s","u","m","m","a","r","i","z","e"," ","n","o","t","e","s",".","t","x","t">>

IN_TASK_DRAFT ==
    <<"t","a","s","k",":"," ","d","r","a","f","t"," ","e","m","a","i","l"," "," ","h","i"," ">>

IN_TASK_DRAFT_EMBEDDED ==
    <<"t","a","s","k",":"," ","d","r","a","f","t"," ","e","m","a","i","l"," ","s","u","m","m","a","r","i","z","e"," ","x">>

IN_TASK_WEATHER ==
    <<"t","a","s","k",":"," ","g","e","t"," ","w","e","a","t","h","e","r"," ","P","a","r","i","s">>

IN_TASK_UNKNOWN ==
    <<"t","a","s","k",":"," ","d","a","n","c","e">>

PATH_NOTES ==
    <<"n","o","t","e","s",".","t","x","t">>

PATH_DOCS ==
    <<"d","o","c","s">>

REPLY_A ==
    <<"h","i"," ","t","h","e","r","e">>

REPLY_LINES ==
    <<"h","i","\n","t","h","e","r","e">>

HEARD_HELLO ==
    <<"h","e","l","l","o">>

HEARD_TASK ==
    <<"t","a","s","k",":"," ","g","e","t"," ","w","e","a","t","h","e","r"," ","P","a","r","i","s">>

UPPER ==
    <<"A","B","C","D","E","F","G","H","I","J","K","L","M","N","O","P","Q","R","S","T","U","V","W","X","Y","Z">>

LOWER ==
    <<"a","b","c","d","e","f","g","h","i","j","k","l","m","n","o","p","q","r","s","t","u","v","w","x","y","z">>

(***************************************************************************)
(* Program constants.                                                      *)
(***************************************************************************)
\* self.context[-10:] in save_context
CONTEXT_LIMIT == 10

\* user_input[6:] in main and web_interface
MARKER_SLICE == 6

\* content[:200] in summarize_file
SUMMARY_CHARS == 200

\* self.context[-10:] in generate_response
PROMPT_LIMIT == 10

(***************************************************************************)
(* Bounds of the model.                                                    *)
(***************************************************************************)
\* chat turns of a session under Spec
MaxChatTurns == 2

\* chat turns of a session under SpecLong
MaxLongTurns == 11

\* chat turns of a session under FairSpec
MaxFairTurns == 1

\* chat turns of a session under SpecPrompt
MaxPromptTurns == 2

\* chat turns of a session under SpecRoute
MaxRouteTurns == 1

\* chat turns of a session under FairSpecTurn
MaxTurnTurns == 1

(***************************************************************************)
(* Python str and list operations.                                         *)
(***************************************************************************)
Min(a, b) == IF a <= b THEN a ELSE b

Max(a, b) == IF a >= b THEN a ELSE b

\* s[:n]
Take(s, n) == SubSeq(s, 1, Min(n, Len(s)))

\* s[n:]
DropN(s, n) == SubSeq(s, Min(n, Len(s)) + 1, Len(s))

\* s[-n:] for n > 0
LastN(s, n) == SubSeq(s, Max(Len(s) - n, 0) + 1, Len(s))

\* s.find(p) + 1: the first position where p occurs in s, 0 if none
Find(s, p) ==
    LET hits == {i \in 1..(Len(s) - Len(p) + 1) : SubSeq(s, i, i + Len(p) - 1) = p}
    IN  IF hits = {} THEN 0 ELSE CHOOSE i \in hits : \A j \in hits : i <= j

\* a router that tests "p in s" where the program tests s.startswith(p)
StartsWith_unanchored(s, p) == Find(s, p) # 0

\* s.startswith(p)
StartsWith(s, p) ==
    /\ Len(p) <= Len(s)
    /\ \A i \in 1..Len(p) : s[i] = p[i]

\* s.split(p, 1)[1], for s in which p occurs
SplitTail(s, p) == DropN(s, Find(s, p) - 1 + Len(p))

\* "\n".join(list)
RECURSIVE Join(_)
Join(list) ==
    IF list = <<>> THEN <<>>
    ELSE IF Len(list) = 1 THEN list[1]
    ELSE list[1] \o <<"\n">> \o Join(Tail(list))

Whitespace == {" ", "\t", "\n", "\r"}

RECURSIVE LStrip(_)
LStrip(s) == IF s # <<>> /\ Head(s) \in Whitespace THEN LStrip(Tail(s)) ELSE s

RECURSIVE RStrip(_)
RStrip(s) ==
    IF s # <<>> /\ s[Len(s)] \in Whitespace
    THEN RStrip(SubSeq(s, 1, Len(s) - 1))
    ELSE s

\* s.lstrip()
Strip_leading(s) == LStrip(s)

\* s.strip()
Strip(s) == RStrip(LStrip(s))

LowerChar(c) ==
    IF \E i \in 1..Len(UPPER) : UPPER[i] = c
    THEN LOWER[CHOOSE i \in 1..Len(UPPER) : UPPER[i] = c]
    ELSE c

\* s.lower()
Lower(s) == [i \in 1..Len(s) |-> LowerChar(s[i])]

(***************************************************************************)
(* The environment: the file system seen by summarize_file, the replies    *)
(* of the language model, the outcomes of the weather request and of the   *)
(* speech recognizer.                                                      *)
(***************************************************************************)
NOTES_CONTENT ==
    <<"B","u","y"," ","m","i","l","k","\n">>

\* "file" | "dir" | "absent"
FsKind(path) ==
    CASE path = PATH_NOTES -> "file"
      [] path = PATH_DOCS  -> "dir"
      [] OTHER             -> "absent"

FileContent(path) == NOTES_CONTENT

Replies == {REPLY_A}

\* replies of one line and of two lines
RepliesMultiline == {REPLY_A, REPLY_LINES}

WeatherOutcomes == {"ok", "non200", "malformed", "unreachable"}

\* what recognizer.listen / recognize_google do
Heard ==
    {[result |-> "text", text |-> HEARD_TASK],
     [result |-> "UnknownValueError", text |-> <<>>],
     [result |-> "WaitTimeoutError", text |-> <<>>],
     [result |-> "RequestError", text |-> <<>>]}

HeardLong ==
    {[result |-> "text", text |-> HEARD_TASK],
     [result |-> "RequestError", text |-> <<>>]}

TaskLines ==
    {IN_TASK_SUMMARIZE, IN_TASK_SUMMARIZE_PADDED, IN_TASK_SUMMARIZE_MISSING,
     IN_TASK_SUMMARIZE_DIR, IN_TASK_EMBEDDED, IN_TASK_DRAFT,
     IN_TASK_DRAFT_EMBEDDED, IN_TASK_WEATHER, IN_TASK_UNKNOWN}

\* lines typed at the console prompt
ConsoleLines ==
    {IN_EMPTY, STR_EXIT, IN_EXIT_UPPER, STR_VOICE, IN_VOICE_MIXED, IN_HELLO}
        \cup TaskLines

\* values of the "Your Query" field
WebLines == {IN_EMPTY, IN_HELLO} \cup TaskLines

DIGITS ==
    <<"0","1","2","3","4","5","6","7","8","9">>

\* str(n)
RECURSIVE Numeral(_)
Numeral(n) ==
    IF n < 10
    THEN <<DIGITS[n + 1]>>
    ELSE Numeral(n \div 10) \o <<DIGITS[(n % 10) + 1]>>

\* the long conversation: the user's k-th chat line is the text of the
\* number k, so that every entry of the context differs from the others
NumberedLine == Numeral(chat_turns + 1)

ConsoleLinesLong == {IN_EMPTY, STR_EXIT, STR_VOICE, NumberedLine} \cup TaskLines

WebLinesLong == {IN_EMPTY, NumberedLine} \cup TaskLines

WebLinesFair ==
    {IN_EMPTY, IN_HELLO, IN_TASK_SUMMARIZE_MISSING, IN_TASK_SUMMARIZE_DIR,
     IN_TASK_WEATHER, IN_TASK_UNKNOWN}

ConsoleLinesFair == {STR_EXIT, STR_VOICE} \cup WebLinesFair

\* the sessions of single turns: one chat line, one task line
WebLinesTurn == {IN_EMPTY, IN_HELLO, IN_TASK_WEATHER}

ConsoleLinesTurn == {STR_EXIT, STR_VOICE} \cup WebLinesTurn

\* the routing sessions: lines that resemble tasks and commands, typed
\* and spoken
HeardRoute ==
    {[result |-> "text", text |-> HEARD_TASK],
     [result |-> "text", text |-> STR_EXIT],
     [result |-> "text", text |-> STR_VOICE],
     [result |-> "UnknownValueError", text |-> <<>>],
     [result |-> "WaitTimeoutError", text |-> <<>>],
     [result |-> "RequestError", text |-> <<>>]}

WebLinesRoute ==
    {IN_EMPTY, STR_EXIT, IN_HELLO, IN_BARE_SUMMARIZE, IN_CASED_MARKER,
     IN_UNSPACED_MARKER, IN_TASK_SUMMARIZE, IN_TASK_UNKNOWN}

ConsoleLinesRoute ==
    {IN_EXIT_UPPER, STR_VOICE, IN_VOICE_MIXED} \cup WebLinesRoute

\* context files a previous session can have left behind
PRIOR_SHORT == <<ROLE_USER \o IN_HELLO, ROLE_AGENT \o REPLY_A>>

PRIOR_FULL ==
    PRIOR_SHORT \o PRIOR_SHORT \o PRIOR_SHORT \o PRIOR_SHORT \o PRIOR_SHORT

NoFile == [exists |-> FALSE, valid |-> FALSE, data |-> <<>>]

\* a file that is not valid JSON, e.g. cut short by a kill during a write
BrokenFile == [exists |-> TRUE, valid |-> FALSE, data |-> <<>>]

JsonFile(list) == [exists |-> TRUE, valid |-> TRUE, data |-> list]

InitialFiles == {NoFile, BrokenFile, JsonFile(PRIOR_SHORT), JsonFile(PRIOR_FULL)}

(***************************************************************************)
(* LocalAIAgent.                                                           *)
(***************************************************************************)
\* a constructor that starts every session from the empty context
load_context_fresh(file) ==
    IF file.exists /\ ~file.valid
    THEN [raised |-> TRUE, context |-> <<>>]
    ELSE [raised |-> FALSE, context |-> <<>>]

\* load_context: json.load raises on a file that is not valid JSON
load_context(file) ==
    IF file.exists
    THEN IF file.valid
         THEN [raised |-> FALSE, context |-> file.data]
         ELSE [raised |-> TRUE, context |-> <<>>]
    ELSE [raised |-> FALSE, context |-> <<>>]

\* a save_context that writes the whole list
save_context_unsliced(ctx) == JsonFile(ctx)

\* a save_context that writes self.context[:10]
save_context_oldest(ctx) == JsonFile(Take(ctx, CONTEXT_LIMIT))

\* save_context: the file is opened with 'w' and receives self.context[-10:]
save_context(ctx) == JsonFile(LastN(ctx, CONTEXT_LIMIT))

\* a generate_response that appends the agent turn before the user turn
generate_response_swapped(ctx, prompt, reply) ==
    LET grown == ctx \o <<ROLE_AGENT \o reply, ROLE_USER \o prompt>>
    IN  [context  |-> grown,
         window   |-> LastN(Append(ctx, ROLE_USER \o prompt), PROMPT_LIMIT),
         full_context |->
             Join(LastN(Append(ctx, ROLE_USER \o prompt), PROMPT_LIMIT)),
         file     |-> JsonFile(LastN(grown, CONTEXT_LIMIT)),
         saves    |-> 1,
         response |-> reply]

\* a generate_response that trims self.context to what it saved
generate_response_trimming(ctx, prompt, reply) ==
    LET grown == ctx \o <<ROLE_USER \o prompt, ROLE_AGENT \o reply>>
    IN  [context  |-> LastN(grown, CONTEXT_LIMIT),
         window   |-> LastN(Append(ctx, ROLE_USER \o prompt), PROMPT_LIMIT),
         full_context |->
             Join(LastN(Append(ctx, ROLE_USER \o prompt), PROMPT_LIMIT)),
         file     |-> JsonFile(LastN(grown, CONTEXT_LIMIT)),
         saves    |-> 1,
         response |-> reply]

\* a generate_response that renders the prompt before it appends the user
\* turn, and saves after each append
generate_response_reordered(ctx, prompt, reply) ==
    LET grown == ctx \o <<ROLE_USER \o prompt, ROLE_AGENT \o reply>>
    IN  [context  |-> grown,
         window   |-> LastN(ctx, PROMPT_LIMIT),
         full_context |-> Join(LastN(ctx, PROMPT_LIMIT)),
         file     |-> JsonFile(LastN(grown, CONTEXT_LIMIT)),
         saves    |-> 2,
         response |-> reply]

\* generate_response, with reply the text the model decodes: line 50 appends
\* the user turn, line 51 renders the prompt, lines 53-62 run the model,
\* line 64 appends the agent turn, line 65 saves, line 66 returns
generate_response(ctx, prompt, reply) ==
    LET with_user  == Append(ctx, ROLE_USER \o prompt)
        slice      == LastN(with_user, PROMPT_LIMIT)
        with_agent == Append(with_user, ROLE_AGENT \o reply)
    IN  [context  |-> with_agent,
         window   |-> slice,
         full_context |-> Join(slice),
         file     |-> save_context(with_agent),
         saves    |-> 1,
         response |-> reply]

\* a speech_to_text without the except clause for WaitTimeoutError
speech_to_text_raising(h) ==
    CASE h.result = "text" ->
           [raised |-> FALSE, text |-> h.text, failure |-> "none"]
      [] h.result = "UnknownValueError" ->
           [raised |-> FALSE, text |-> MSG_UNINTELLIGIBLE,
            failure |-> "RecognitionFailure"]
      [] OTHER ->
           [raised |-> TRUE, text |-> <<>>, failure |-> h.result]

\* speech_to_text, with h what the recognizer does
speech_to_text(h) ==
    CASE h.result = "text" ->
           [raised |-> FALSE, text |-> h.text, failure |-> "none"]
      [] h.result = "UnknownValueError" ->
           [raised |-> FALSE, text |-> MSG_UNINTELLIGIBLE,
            failure |-> "RecognitionFailure"]
      [] h.result = "WaitTimeoutError" ->
           [raised |-> FALSE, text |-> MSG_NO_SPEECH,
            failure |-> "RecognitionFailure"]
      [] OTHER ->
           [raised |-> TRUE, text |-> <<>>, failure |-> h.result]

\* summarize_file: open() raises on a path that exists and is no readable file
summarize_file(file_path) ==
    IF FsKind(file_path) = "absent"
    THEN [raised |-> FALSE, failure |-> "NotFound",
          out |-> MSG_FILE_OPEN \o file_path \o MSG_FILE_CLOSE]
    ELSE IF FsKind(file_path) = "file"
         THEN [raised |-> FALSE, failure |-> "none",
               out |-> MSG_SUMMARY \o Take(FileContent(file_path), SUMMARY_CHARS)
                         \o MSG_ELLIPSIS]
         ELSE [raised |-> TRUE, failure |-> "IsADirectoryError", out |-> <<>>]

\* a get_weather that raises on a non-200 status (response.raise_for_status())
get_weather_raising(location, w) ==
    CASE w = "ok" ->
           [raised |-> FALSE, failure |-> "none",
            out |-> MSG_WEATHER_IN \o location \o MSG_WEATHER_REPORT]
      [] w = "non200" ->
           [raised |-> TRUE, failure |-> "ExternalServiceFailure", out |-> <<>>]
      [] w = "malformed" ->
           [raised |-> TRUE, failure |-> "MalformedResponse", out |-> <<>>]
      [] OTHER ->
           [raised |-> TRUE, failure |-> "ConnectionError", out |-> <<>>]

\* get_weather, with w what the HTTP request does
get_weather(location, w) ==
    CASE w = "ok" ->
           [raised |-> FALSE, failure |-> "none",
            out |-> MSG_WEATHER_IN \o location \o MSG_WEATHER_REPORT]
      [] w = "non200" ->
           [raised |-> FALSE, failure |-> "ExternalServiceFailure",
            out |-> MSG_WEATHER_FAILED]
      [] w = "malformed" ->
           [raised |-> TRUE, failure |-> "MalformedResponse", out |-> <<>>]
      [] OTHER ->
           [raised |-> TRUE, failure |-> "ConnectionError", out |-> <<>>]

\* perform_task
perform_task(task, w) ==
    IF StartsWith(task, PREFIX_SUMMARIZE)
    THEN LET file_path == Strip(SplitTail(task, PREFIX_SUMMARIZE))
             r == summarize_file(file_path)
         IN  [kind |-> "summarize", argument |-> file_path, out |-> r.out,
              failure |-> r.failure, raised |-> r.raised]
    ELSE IF StartsWith(task, PREFIX_DRAFT_EMAIL)
    THEN LET content == SplitTail(task, PREFIX_DRAFT_EMAIL)
         IN  [kind |-> "draft_email", argument |-> content,
              out |-> MSG_DRAFTING \o content,
              failure |-> "none", raised |-> FALSE]
    ELSE IF StartsWith(task, PREFIX_GET_WEATHER)
    THEN LET location == SplitTail(task, PREFIX_GET_WEATHER)
             r == get_weather(location, w)
         IN  [kind |-> "get_weather", argument |-> location, out |-> r.out,
              failure |-> r.failure, raised |-> r.raised]
    ELSE [kind |-> "unrecognized", argument |-> <<>>,
          out |-> MSG_NOT_RECOGNIZED,
          failure |-> "UnrecognizedCommand", raised |-> FALSE]

(***************************************************************************)
(* The front ends.                                                         *)
(***************************************************************************)
\* a branch without the "if user_input:" test
Route_unchecked(inp) ==
    IF StartsWith(inp, TASK_MARKER) THEN "task" ELSE "chat"

\* a branch that accepts the task marker in any letter case
Route_loose(inp) ==
    IF inp = <<>> THEN "none"
    ELSE IF StartsWith(Lower(inp), TASK_MARKER) THEN "task"
    ELSE "chat"

\* if user_input: / if user_input.startswith("task: "): / else:
Route(inp) ==
    IF inp = <<>> THEN "none"
    ELSE IF StartsWith(inp, TASK_MARKER) THEN "task"
    ELSE "chat"

\* an uncaught exception ends the process
Raise(f) ==
    /\ pc' = "crashed"
    /\ failure' = f
    /\ event' = "raise"
    /\ UNCHANGED <<mode, context, context_file, enable_tts, user_input, voiced,
                   routed, kind, argument, output, shown, displayed, spoken,
                   loaded, chat_turns, window, full_context, saves>>

\* the branch taken on the turn's input; max bounds the chat turns of a run
Dispatch(inp, v, f, notice, max) ==
    LET r == Route(inp)
    IN  /\ r = "chat" => chat_turns < max
        /\ user_input' = inp
        /\ voiced' = v
        /\ failure' = f
        /\ routed' = r
        /\ pc' = IF r = "none" THEN "await" ELSE r
        /\ event' = IF r = "none" THEN "empty" ELSE "route"
        /\ shown' = IF r = "none" THEN notice ELSE <<>>
        /\ kind' = "none"
        /\ argument' = <<>>
        /\ output' = <<>>
        /\ displayed' = FALSE
        /\ spoken' = FALSE
        /\ window' = <<>>
        /\ full_context' = <<>>
        /\ saves' = 0
        /\ UNCHANGED <<mode, context, context_file, loaded, chat_turns>>

Init ==
    /\ mode = "unset"
    /\ pc = "start"
    /\ context = <<>>
    /\ context_file \in InitialFiles
    /\ enable_tts = FALSE
    /\ user_input = <<>>
    /\ voiced = FALSE
    /\ routed = "none"
    /\ kind = "none"
    /\ argument = <<>>
    /\ output = <<>>
    /\ shown = <<>>
    /\ displayed = FALSE
    /\ spoken = FALSE
    /\ failure = "none"
    /\ event = "none"
    /\ loaded = 0
    /\ chat_turns = 0
    /\ window = <<>>
    /\ full_context = <<>>
    /\ saves = 0

\* main, lines 154-158 and 177-180: LocalAIAgent(model_path), then the mode.
\* The console has no text-to-speech switch: the engine is initialised at
\* line 28 and line 176 calls it unconditionally, so it counts as enabled.
Construct ==
    /\ pc = "start"
    /\ LET r == load_context(context_file)
       IN  IF r.raised
           THEN Raise("JSONDecodeError")
           ELSE \E m \in {"console", "web", "invalid"} :
                  /\ mode' = m
                  /\ pc' = IF m = "invalid" THEN "done" ELSE "await"
                  /\ context' = r.context
                  /\ loaded' = Len(r.context)
                  /\ enable_tts' = (m = "console")
                  /\ event' = "construct"
                  /\ UNCHANGED <<context_file, user_input, voiced, routed,
                                 kind, argument, output, shown, displayed,
                                 spoken, failure, chat_turns, window,
                                 full_context, saves>>

\* a test of the line as typed, where the program lowers it first
IsExit_cased(typed) == typed = STR_EXIT

\* user_input.lower() == "exit"
IsExit(typed) == Lower(typed) = STR_EXIT

\* a test of the line as typed, where the program lowers it first
IsVoice_cased(typed) == typed = STR_VOICE

\* user_input.lower() == "voice"
IsVoice(typed) == Lower(typed) = STR_VOICE

\* main, lines 162-171: one pass of the console loop up to the branch
ConsoleInput(lines, heard, max) ==
    /\ pc = "await"
    /\ mode = "console"
    /\ \E typed \in lines :
         IF IsExit(typed)
         THEN /\ pc' = "done"
              /\ event' = "exit"
              /\ user_input' = typed
              /\ shown' = MSG_GOODBYE
              /\ voiced' = FALSE
              /\ failure' = "none"
              /\ routed' = "none"
              /\ kind' = "none"
              /\ argument' = <<>>
              /\ output' = <<>>
              /\ displayed' = FALSE
              /\ spoken' = FALSE
              /\ window' = <<>>
              /\ full_context' = <<>>
              /\ saves' = 0
              /\ UNCHANGED <<mode, context, context_file, enable_tts, loaded,
                             chat_turns>>
         ELSE IF IsVoice(typed)
              THEN \E h \in heard :
                     LET r == speech_to_text(h)
                     IN  IF r.raised
                         THEN Raise(r.failure)
                         ELSE /\ Dispatch(r.text, TRUE, r.failure, <<>>, max)
                              /\ UNCHANGED enable_tts
              ELSE /\ Dispatch(typed, FALSE, "none", <<>>, max)
                   /\ UNCHANGED enable_tts

\* web_interface, lines 124-136 and 146-147: one run of the page script on
\* the agent it was handed, with r the text of the query field or what
\* speech_to_text did; the checkboxes and the button are read anew each run
WebPass(r, use_voice, tts, submit, max) ==
    IF r.raised
    THEN Raise(r.failure)
    ELSE /\ enable_tts' = tts
         /\ IF submit
            THEN Dispatch(r.text, use_voice, r.failure, MSG_WARNING, max)
            ELSE /\ user_input' = r.text
                 /\ voiced' = use_voice
                 /\ failure' = r.failure
                 /\ routed' = "none"
                 /\ event' = "idle"
                 /\ shown' = <<>>
                 /\ kind' = "none"
                 /\ argument' = <<>>
                 /\ output' = <<>>
                 /\ displayed' = FALSE
                 /\ spoken' = FALSE
                 /\ window' = <<>>
                 /\ full_context' = <<>>
                 /\ saves' = 0
                 /\ UNCHANGED <<mode, pc, context, context_file, loaded,
                                chat_turns>>

WebRun(lines, heard, max) ==
    /\ pc = "await"
    /\ mode = "web"
    /\ \E use_voice \in BOOLEAN, tts \in BOOLEAN, submit \in BOOLEAN :
         IF use_voice
         THEN \E h \in heard :
                WebPass(speech_to_text(h), TRUE, tts, submit, max)
         ELSE \E typed \in lines :
                WebPass([raised |-> FALSE, text |-> typed, failure |-> "none"],
                        FALSE, tts, submit, max)

\* a task branch that records the task and its output in the context
PerformTask_logged ==
    /\ pc = "task"
    /\ \E w \in WeatherOutcomes :
         LET r == perform_task(DropN(user_input, MARKER_SLICE), w)
         IN  IF r.raised
             THEN Raise(r.failure)
             ELSE /\ kind' = r.kind
                  /\ argument' = r.argument
                  /\ output' = r.out
                  /\ failure' = r.failure
                  /\ context' = context \o <<ROLE_USER \o user_input,
                                              ROLE_AGENT \o r.out>>
                  /\ context_file' = save_context(context')
                  /\ pc' = "output"
                  /\ event' = "perform_task"
                  /\ UNCHANGED <<mode, enable_tts, user_input, voiced, routed,
                                 shown, displayed, spoken, loaded, chat_turns,
                                 window, full_context, saves>>

\* agent.perform_task(user_input[6:]), lines 172 and 137
PerformTask ==
    /\ pc = "task"
    /\ \E w \in WeatherOutcomes :
         LET r == perform_task(DropN(user_input, MARKER_SLICE), w)
         IN  IF r.raised
             THEN Raise(r.failure)
             ELSE /\ kind' = r.kind
                  /\ argument' = r.argument
                  /\ output' = r.out
                  /\ failure' = r.failure
                  /\ pc' = "output"
                  /\ event' = "perform_task"
                  /\ UNCHANGED <<mode, context, context_file, enable_tts,
                                 user_input, voiced, routed, shown, displayed,
                                 spoken, loaded, chat_turns, window,
                                 full_context, saves>>

\* agent.generate_response(user_input), lines 174 and 142, with replies the
\* texts the model may decode
GenerateResponseOf(replies) ==
    /\ pc = "chat"
    /\ \E reply \in replies :
         LET r == generate_response(context, user_input, reply)
         IN  /\ context' = r.context
             /\ context_file' = r.file
             /\ window' = r.window
             /\ full_context' = r.full_context
             /\ saves' = saves + r.saves
             /\ output' = r.response
             /\ chat_turns' = chat_turns + 1
             /\ pc' = "output"
             /\ event' = "generate_response"
             /\ UNCHANGED <<mode, enable_tts, user_input, voiced, routed, kind,
                            argument, shown, displayed, spoken, failure, loaded>>

GenerateResponse == GenerateResponseOf(Replies)

\* whether the front end calls text_to_speech: line 176 (console, chat
\* branch only), lines 139-140 and 144-145 (web, if enable_tts)
Speaks ==
    IF mode = "console" THEN routed = "chat" ELSE enable_tts

\* a front end that calls text_to_speech first and displays nothing
Display_speech_first ==
    /\ pc = "output"
    /\ spoken' = Speaks
    /\ pc' = "displayed"
    /\ event' = "display"
    /\ UNCHANGED <<mode, context, context_file, enable_tts, user_input, voiced,
                   routed, kind, argument, output, shown, displayed, failure,
                   loaded, chat_turns, window, full_context, saves>>

\* print(...) at lines 172 and 175, st.text_area at lines 138 and 143
Display ==
    /\ pc = "output"
    /\ shown' = IF mode = "console" /\ routed = "chat"
                THEN ROLE_AGENT \o output
                ELSE output
    /\ displayed' = TRUE
    /\ pc' = "displayed"
    /\ event' = "display"
    /\ UNCHANGED <<mode, context, context_file, enable_tts, user_input, voiced,
                   routed, kind, argument, output, spoken, failure, loaded,
                   chat_turns, window, full_context, saves>>

\* the end of the turn: text_to_speech if the front end calls it
FinishTurn ==
    /\ pc = "displayed"
    /\ spoken' = Speaks
    /\ pc' = "await"
    /\ event' = IF Speaks THEN "speak" ELSE "silent"
    /\ UNCHANGED <<mode, context, context_file, enable_tts, user_input, voiced,
                   routed, kind, argument, output, shown, displayed, failure,
                   loaded, chat_turns, window, full_context, saves>>

Session(consoleLines, webLines, heard, max) ==
    \/ Construct
    \/ ConsoleInput(consoleLines, heard, max)
    \/ WebRun(webLines, heard, max)
    \/ PerformTask
    \/ GenerateResponse
    \/ Display
    \/ FinishTurn

Next == Session(ConsoleLines, WebLines, Heard, MaxChatTurns)

Spec == Init /\ [][Next]_vars

NextLong ==
    \/ Construct
    \/ ConsoleInput(ConsoleLinesLong, HeardLong, MaxLongTurns)
    \/ WebRun(WebLinesLong, HeardLong, MaxLongTurns)
    \/ PerformTask
    \/ GenerateResponse
    \/ Display
    \/ FinishTurn

SpecLong == Init /\ [][NextLong]_vars

\* sessions in which the model also decodes a reply of two lines
NextPrompt ==
    \/ Construct
    \/ ConsoleInput(ConsoleLinesFair, HeardLong, MaxPromptTurns)
    \/ WebRun(WebLinesFair, HeardLong, MaxPromptTurns)
    \/ PerformTask
    \/ GenerateResponseOf(RepliesMultiline)
    \/ Display
    \/ FinishTurn

SpecPrompt == Init /\ [][NextPrompt]_vars

\* sessions of lines that resemble tasks and commands
NextRoute ==
    \/ Construct
    \/ ConsoleInput(ConsoleLinesRoute, HeardRoute, MaxRouteTurns)
    \/ WebRun(WebLinesRoute, HeardRoute, MaxRouteTurns)
    \/ PerformTask
    \/ GenerateResponse
    \/ Display
    \/ FinishTurn

SpecRoute == Init /\ [][NextRoute]_vars

TypeOK ==
    /\ mode \in {"unset", "console", "web", "invalid"}
    /\ pc \in {"start", "await", "task", "chat", "output", "displayed",
               "done", "crashed"}
    /\ routed \in {"none", "task", "chat"}
    /\ enable_tts \in BOOLEAN
    /\ displayed \in BOOLEAN
    /\ spoken \in BOOLEAN
    /\ voiced \in BOOLEAN
    /\ kind \in {"none", "summarize", "draft_email", "get_weather", "unrecognized"}
    /\ chat_turns \in Nat
    /\ loaded \in 0..CONTEXT_LIMIT
    /\ saves \in Nat
    /\ Len(window) <= PROMPT_LIMIT

(***************************************************************************)
(* Fairness: the orchestrator is one synchronous thread and every blocking *)
(* call of a turn returns, so a turn that was begun is carried on. Reading *)
(* the next input is not forced: the user may stop typing.                 *)
(***************************************************************************)
TurnStep == PerformTask \/ GenerateResponse \/ Display \/ FinishTurn

NextFair == Session(ConsoleLinesFair, WebLinesFair, Heard, MaxFairTurns)

FairSpec == Init /\ [][NextFair]_vars /\ WF_vars(TurnStep)

\* sessions of single turns, every begun turn carried on
NextTurn ==
    \/ Construct
    \/ ConsoleInput(ConsoleLinesTurn, HeardLong, MaxTurnTurns)
    \/ WebRun(WebLinesTurn, HeardLong, MaxTurnTurns)
    \/ PerformTask
    \/ GenerateResponse
    \/ Display
    \/ FinishTurn

FairSpecTurn == Init /\ [][NextTurn]_vars /\ WF_vars(TurnStep)

(***************************************************************************)
(* Properties.                                                             *)
(***************************************************************************)
\* the last step completed a turn that produced output text
TurnCompleted == pc = "await" /\ event \in {"speak", "silent"}

\* C1: in every reachable state the persisted context, the content of the
\* context file, holds at most 10 entries, whatever turns were processed.
C1_PersistedAtMostTen == Len(context_file.data) <= 10

\* a save has cut a context of more than 10 entries down to 10
C1_Witness ==
    /\ event = "generate_response"
    /\ Len(context) > 10
    /\ Len(context_file.data) = 10

\* C2: after more than 10 chat turns the persisted context has exactly 10
\* entries, the 10 last entries of the conversation in their order; after
\* any save the file holds the tail of the conversation and nothing of what
\* it held before.
C2_LastTenInOrder ==
    chat_turns >= 1 =>
        LET data == context_file.data
            n == Len(context)
        IN  /\ context_file.exists /\ context_file.valid
            /\ Len(data) = IF n < 10 THEN n ELSE 10
            /\ \A i \in 1..Len(data) : data[i] = context[n - Len(data) + i]
            /\ chat_turns > 10 => Len(data) = 10

\* more than 10 chat turns are done
C2_Witness ==
    /\ chat_turns > 10
    /\ TurnCompleted
    /\ Len(context) >= 22
    /\ Len(context_file.data) = 10

\* C3: every step of a task turn, from the branch on the task marker to the
\* end of the turn or to an uncaught exception, leaves the in-memory
\* context and the context file unchanged.
C3_TaskTurnLeavesContext ==
    [][routed' = "task" => UNCHANGED <<context, context_file>>]_vars

\* a task turn whose executor reported a failure has ended after a chat turn
C3_Witness ==
    /\ TurnCompleted
    /\ routed = "task"
    /\ failure = "NotFound"
    /\ chat_turns >= 1
    /\ context # <<>>

\* C4: an empty input read while awaiting input changes neither the context
\* nor the context file, takes no branch, produces no output and no speech,
\* and leaves the orchestrator awaiting input.
C4_EmptyInputNoEffect ==
    [][(pc = "await" /\ user_input' = <<>> /\ event' # "raise")
         => /\ pc' = "await"
            /\ UNCHANGED <<context, context_file, chat_turns>>
            /\ routed' = "none"
            /\ output' = <<>>
            /\ ~displayed'
            /\ ~spoken']_vars

\* an empty input was submitted in a session that has a conversation
C4_Witness ==
    /\ event = "empty"
    /\ user_input = <<>>
    /\ pc = "await"
    /\ chat_turns >= 1

\* the entry is a user turn / an agent turn
IsUserTurn(entry) ==
    Len(entry) >= 5 /\ SubSeq(entry, 1, 5) = <<"Y", "o", "u", ":", " ">>

IsAgentTurn(entry) ==
    Len(entry) >= 4 /\ SubSeq(entry, 1, 4) = <<"A", "I", ":", " ">>

\* C5: each chat turn appends exactly two entries, the user turn then the
\* agent turn; from an empty context k chat turns give 2k entries that
\* alternate user, agent.
C5_ChatTurnAppendsPair ==
    /\ [](loaded = 0 =>
            /\ Len(context) = 2 * chat_turns
            /\ \A i \in 1..Len(context) :
                 IF i % 2 = 1 THEN IsUserTurn(context[i])
                              ELSE IsAgentTurn(context[i]))
    /\ [][pc = "chat" =>
            LET n == Len(context)
            IN  /\ Len(context') = n + 2
                /\ SubSeq(context', 1, n) = context
                /\ context'[n + 1] = <<"Y", "o", "u", ":", " ">> \o user_input
                /\ context'[n + 2] = <<"A", "I", ":", " ">> \o output']_vars

\* two chat turns were made from an empty context
C5_Witness ==
    /\ loaded = 0
    /\ chat_turns = 2
    /\ TurnCompleted
    /\ Len(context) = 4

\* C6: load_context never raises and returns an empty context when the
\* context file is missing or is unreadable.
C6_LoadFailsOpen ==
    /\ ~(pc = "crashed" /\ chat_turns = 0 /\ mode = "unset")
    /\ (event = "construct" /\ ~(context_file.exists /\ context_file.valid))
         => context = <<>>

\* the text has p at position 0 / has p somewhere
AtStart(t, p) == Len(t) >= Len(p) /\ SubSeq(t, 1, Len(p)) = p

Occurs(t, p) ==
    \E i \in 1..Len(t) : i + Len(p) - 1 <= Len(t) /\ SubSeq(t, i, i + Len(p) - 1) = p

\* C7: the task kind is that of the first of "summarize ", "draft email ",
\* "get weather " found at position 0 of the task text; a text with none of
\* them at position 0 is unrecognized and yields the canned message, also
\* when one of them occurs further on.
C7_RouterAnchored ==
    (routed = "task" /\ kind # "none") =>
        LET t == SubSeq(user_input, 7, Len(user_input))
        IN  /\ kind = IF AtStart(t, PREFIX_SUMMARIZE) THEN "summarize"
                      ELSE IF AtStart(t, PREFIX_DRAFT_EMAIL) THEN "draft_email"
                      ELSE IF AtStart(t, PREFIX_GET_WEATHER) THEN "get_weather"
                      ELSE "unrecognized"
            /\ (\A p \in {PREFIX_SUMMARIZE, PREFIX_DRAFT_EMAIL, PREFIX_GET_WEATHER} :
                  ~AtStart(t, p))
                 => (kind = "unrecognized" /\ output = MSG_NOT_RECOGNIZED)

\* "please summarize notes.txt" was routed
C7_Witness ==
    /\ TurnCompleted
    /\ user_input = IN_TASK_EMBEDDED
    /\ Occurs(SubSeq(user_input, 7, Len(user_input)), PREFIX_SUMMARIZE)
    /\ kind = "unrecognized"
    /\ output = MSG_NOT_RECOGNIZED

HandledFailures ==
    {"NotFound", "ExternalServiceFailure", "RecognitionFailure",
     "UnrecognizedCommand"}

\* C8: a NotFound, ExternalServiceFailure, RecognitionFailure or
\* UnrecognizedCommand failure raises no exception, becomes the readable
\* text of its kind, and the orchestrator comes back to awaiting input.
C8_FailureBecomesText ==
    /\ [](failure \in HandledFailures =>
            /\ pc # "crashed"
            /\ (failure = "RecognitionFailure") =>
                 (voiced /\ user_input \in {MSG_UNINTELLIGIBLE, MSG_NO_SPEECH})
            /\ (failure = "NotFound") =>
                 output = MSG_FILE_OPEN \o argument \o MSG_FILE_CLOSE
            /\ (failure = "ExternalServiceFailure") =>
                 output = MSG_WEATHER_FAILED
            /\ (failure = "UnrecognizedCommand") =>
                 output = MSG_NOT_RECOGNIZED)
    /\ (failure \in HandledFailures) ~> (pc = "await")

\* a turn whose weather request got a non-200 answer has ended
C8_Witness ==
    /\ TurnCompleted
    /\ failure = "ExternalServiceFailure"
    /\ displayed
    /\ shown = MSG_WEATHER_FAILED

\* C9: every turn that produced output text has displayed it, and has
\* spoken it if and only if text-to-speech is enabled.
C9_DisplayAndSpeechIffEnabled ==
    TurnCompleted => (displayed /\ (spoken <=> enable_tts))

\* C10 as stated: after a persistence event the in-memory context holds at
\* most 10 turns.
C10_InMemoryAtMostTenAfterSave ==
    chat_turns >= 1 => Len(context) <= 10

\* C10, amended: the in-memory context is never trimmed; it holds every
\* loaded entry and two entries per chat turn, and after a save only the
\* context file is held to 10 entries.
C10_InMemoryNeverTrimmed ==
    /\ pc # "start" => Len(context) = loaded + 2 * chat_turns
    /\ chat_turns >= 1 =>
         Len(context_file.data) = IF Len(context) < 10 THEN Len(context) ELSE 10

\* after a save the in-memory context is longer than the persisted one
C10_Witness ==
    /\ chat_turns >= 1
    /\ pc = "await"
    /\ Len(context) = 12
    /\ Len(context_file.data) = 10

\* the turn is a chat turn whose generate_response call has returned
ChatAnswered == routed = "chat" /\ pc \in {"output", "displayed", "await"}

\* the number of lines of a text
Lines(t) == 1 + Cardinality({i \in 1..Len(t) : t[i] = "\n"})

RECURSIVE SumLen(_)
SumLen(list) == IF list = <<>> THEN 0 ELSE Len(Head(list)) + SumLen(Tail(list))

\* C11 as stated: the prompt of a chat turn ends with the user turn as its
\* last line and never has more than 10 lines.
C11_PromptAtMostTenLines ==
    ChatAnswered =>
        LET turn == <<"Y", "o", "u", ":", " ">> \o user_input
            k == Len(full_context) - Len(turn)
        IN  /\ k >= 0
            /\ SubSeq(full_context, k + 1, Len(full_context)) = turn
            /\ k > 0 => full_context[k] = "\n"
            /\ Lines(full_context) <= 10

\* C11, amended: in a chat turn the user turn is appended, the prompt is
\* rendered from the last 10 entries of the context as it then is, oldest
\* first and joined by newlines, the agent turn is appended after that, the
\* context is saved once with the agent turn in it, and the reply is the
\* output; the prompt ends with the new user turn and is made of at most 10
\* entries.
C11_PromptOrder ==
    ChatAnswered =>
        LET n == Len(context)
            m == Len(window)
            turn == <<"Y", "o", "u", ":", " ">> \o user_input
            k == Len(full_context) - Len(turn)
        IN  /\ n >= 2
            /\ context[n - 1] = turn
            /\ context[n] = <<"A", "I", ":", " ">> \o output
            /\ m = (IF n - 1 < 10 THEN n - 1 ELSE 10)
            /\ \A i \in 1..m : window[i] = context[n - 1 - m + i]
            /\ Len(full_context) = SumLen(window) + m - 1
            /\ SubSeq(full_context, 1, Len(window[1])) = window[1]
            /\ k >= 0
            /\ SubSeq(full_context, k + 1, Len(full_context)) = turn
            /\ k > 0 => full_context[k] = "\n"
            /\ saves = 1
            /\ context_file.data # <<>>
            /\ context_file.data[Len(context_file.data)] = context[n]

\* a chat turn whose prompt has 10 entries and more than 10 lines
C11_Witness ==
    /\ TurnCompleted
    /\ routed = "chat"
    /\ Len(window) = 10
    /\ Lines(full_context) > 10
    /\ saves = 1

\* the failures with which a blocking call itself raises instead of returning
CallRaised == {"ConnectionError", "IsADirectoryError", "RequestError"}

\* C12 as stated: a routed turn whose blocking calls return reaches its
\* output text (and from there display, speech and the next input).
C12_RoutedTurnReachesOutput ==
    [][(pc \in {"task", "chat"} /\ failure' \notin CallRaised)
         => pc' = "output"]_vars

\* C12, amended: a non-empty non-exit input is routed to exactly one of the
\* task router and the response generator; the routed turn either produces
\* its output text or ends the process with an uncaught exception (a
\* weather answer of unexpected shape among them, although the HTTP call
\* returned); an output text is displayed first, then spoken or not, and
\* then the orchestrator awaits input again; every begun turn eventually
\* comes back to awaiting input or has ended the process.
C12_TurnSequence ==
    /\ [][
         /\ (event' = "route")
              => /\ pc = "await"
                 /\ user_input' # <<>>
                 /\ routed' \in {"task", "chat"}
                 /\ pc' = routed'
                 /\ routed' = "task" <=> StartsWith(user_input', TASK_MARKER)
         /\ (pc = "task")
              => /\ pc' \in {"output", "crashed"}
                 /\ UNCHANGED <<chat_turns, routed>>
                 /\ (pc' = "output") => (kind' # "none")
                 /\ (pc' = "crashed") =>
                      (failure' \in CallRaised \cup {"MalformedResponse"})
         /\ (pc = "chat")
              => /\ pc' = "output"
                 /\ chat_turns' = chat_turns + 1
                 /\ kind' = "none"
                 /\ UNCHANGED routed
         /\ (pc = "output")
              => (pc' = "displayed" /\ displayed' /\ ~spoken')
         /\ (pc = "displayed")
              => (pc' = "await" /\ displayed' /\ UNCHANGED shown)
         /\ pc # "crashed"
       ]_vars
    /\ [](spoken => displayed)
    /\ (pc \in {"task", "chat", "output", "displayed"})
         ~> (pc \in {"await", "crashed"})

\* a task turn went through output, display and speech back to awaiting input
C12_Witness ==
    /\ TurnCompleted
    /\ routed = "task"
    /\ kind = "get_weather"
    /\ failure = "none"
    /\ displayed
    /\ spoken
    /\ shown = output

\* C13: a line typed at the console that is "exit" in any letter case ends
\* the session: the step goes to the final state, changes neither the
\* context nor the context file, saves nothing, takes no branch, produces
\* no output and no speech, and no step follows the final state.
C13_ExitEndsSession ==
    [][/\ (/\ pc = "await"
           /\ mode = "console"
           /\ ~voiced'
           /\ Lower(user_input') = STR_EXIT)
          => /\ pc' = "done"
             /\ event' = "exit"
             /\ UNCHANGED <<context, context_file, chat_turns>>
             /\ saves' = 0
             /\ routed' = "none"
             /\ kind' = "none"
             /\ output' = <<>>
             /\ ~displayed'
             /\ ~spoken'
       /\ pc # "done"
      ]_vars

\* "EXIT" was typed in a session that has a conversation
C13_Witness ==
    /\ pc = "done"
    /\ event = "exit"
    /\ user_input = IN_EXIT_UPPER
    /\ shown = MSG_GOODBYE
    /\ chat_turns >= 1
    /\ context_file.data # <<>>

\* C14: a turn whose input comes from speech_to_text has the recognized
\* text as its whole input and takes the branch a typed line of that text
\* takes; a listening timeout or unintelligible speech raises nothing and
\* makes one of the two placeholder texts the input, which is routed to the
\* response generator and answered.
C14_VoiceReplacesInput ==
    /\ [][/\ (pc = "await" /\ voiced' /\ event' # "raise")
             => /\ user_input' \in {HEARD_TASK, STR_EXIT, STR_VOICE,
                                    MSG_UNINTELLIGIBLE, MSG_NO_SPEECH}
                /\ (failure' = "RecognitionFailure")
                     <=> (user_input' \in {MSG_UNINTELLIGIBLE, MSG_NO_SPEECH})
                /\ failure' \in {"none", "RecognitionFailure"}
                /\ (event' # "idle")
                     => /\ event' = "route"
                        /\ routed' = IF StartsWith(user_input', TASK_MARKER)
                                     THEN "task" ELSE "chat"
                        /\ pc' = routed'
                /\ (event' # "idle" /\ failure' = "RecognitionFailure")
                     => pc' = "chat"
          /\ (pc = "chat" /\ voiced)
             => /\ pc' = "output"
                /\ context' = context \o <<ROLE_USER \o user_input,
                                            ROLE_AGENT \o output'>>
         ]_vars
    /\ [](pc = "crashed" =>
            failure \notin {"WaitTimeoutError", "UnknownValueError",
                            "RecognitionFailure"})

\* a turn whose voice capture timed out was answered as a chat turn
C14_Witness ==
    /\ TurnCompleted
    /\ voiced
    /\ failure = "RecognitionFailure"
    /\ user_input = MSG_NO_SPEECH
    /\ routed = "chat"
    /\ displayed
    /\ context[Len(context) - 1] = ROLE_USER \o MSG_NO_SPEECH

\* the text after the task marker and the prefix of the routed kind
AfterPrefix ==
    LET p == CASE kind = "summarize"   -> PREFIX_SUMMARIZE
               [] kind = "draft_email" -> PREFIX_DRAFT_EMAIL
               [] OTHER                -> PREFIX_GET_WEATHER
    IN  SubSeq(user_input, 7 + Len(p), Len(user_input))

\* the text is blank / the text a is the text t without the blanks at its ends
Blank(t) == \A i \in 1..Len(t) : t[i] \in Whitespace

Trimmed(a, t) ==
    /\ a # <<>> => (a[1] \notin Whitespace /\ a[Len(a)] \notin Whitespace)
    /\ \E i \in 0..Len(t) :
         /\ i + Len(a) <= Len(t)
         /\ Blank(SubSeq(t, 1, i))
         /\ SubSeq(t, i + 1, i + Len(a)) = a
         /\ Blank(SubSeq(t, i + Len(a) + 1, Len(t)))

RoutedToExecutor ==
    routed = "task" /\ kind \in {"summarize", "draft_email", "get_weather"}

\* C15 as stated: for every task kind the argument is the text after the
\* prefix without its leading whitespace and with its trailing whitespace.
C15_ArgumentLeadingStripped ==
    RoutedToExecutor =>
        /\ argument # <<>> => argument[1] \notin Whitespace
        /\ \E i \in 0..Len(AfterPrefix) :
             /\ Blank(SubSeq(AfterPrefix, 1, i))
             /\ argument = SubSeq(AfterPrefix, i + 1, Len(AfterPrefix))

\* C15, amended: the argument of summarize is the text after the prefix
\* with the whitespace at both its ends removed; the argument of draft
\* email and of get weather is the text after the prefix as it is, leading
\* and trailing whitespace kept; "summarize notes.txt" yields "notes.txt".
C15_ArgumentPerKind ==
    RoutedToExecutor =>
        /\ (kind = "summarize") => Trimmed(argument, AfterPrefix)
        /\ (kind # "summarize") => argument = AfterPrefix
        /\ (user_input = IN_TASK_SUMMARIZE) => argument = PATH_NOTES

\* "summarize  notes.txt " was handed to the executor as "notes.txt"
C15_Witness ==
    /\ TurnCompleted
    /\ user_input = IN_TASK_SUMMARIZE_PADDED
    /\ kind = "summarize"
    /\ argument = PATH_NOTES
    /\ AfterPrefix # argument

\* C16: a summarize task on a path that is not an existing file yields the
\* not-found message, and on an existing file yields the first 200
\* characters of its content followed by the ellipsis marker, whatever the
\* length of the content (the code's "Summary: " label in front is allowed).
C16_SummarizeResult ==
    [][(/\ pc = "task"
        /\ AtStart(SubSeq(user_input, 7, Len(user_input)), PREFIX_SUMMARIZE))
         => /\ pc' = "output"
            /\ kind' = "summarize"
            /\ output' =
                 IF FsKind(argument') = "file"
                 THEN <<"S", "u", "m", "m", "a", "r", "y", ":", " ">>
                        \o SubSeq(FileContent(argument'), 1,
                                  IF Len(FileContent(argument')) < 200
                                  THEN Len(FileContent(argument')) ELSE 200)
                        \o <<".", ".", ".">>
                 ELSE <<"F", "i", "l", "e", " ", "'">> \o argument'
                        \o <<"'", " ", "n", "o", "t", " ", "f", "o", "u", "n", "d", ".">>
       ]_vars

\* C17: whenever the orchestrator awaits input, the context file holds the
\* last 10 entries of the in-memory context, all of them when there are 10
\* or fewer (every context file a session starts from has at most 10
\* entries); and every step leaves the in-memory context as it was or
\* extends it at its end.
C17_PersistedIsTailOfMemory ==
    /\ [](pc = "await" =>
            LET data == context_file.data
                n == Len(context)
                m == IF n <= 10 THEN n ELSE 10
            IN  /\ Len(data) = m
                /\ \A i \in 1..m : data[i] = context[n - m + i])
    /\ [][/\ Len(context') >= Len(context)
          /\ SubSeq(context', 1, Len(context)) = context]_vars

\* awaiting input with a loaded context that has grown beyond 10 entries
C17_Witness ==
    /\ pc = "await"
    /\ loaded = 2
    /\ chat_turns = 5
    /\ Len(context) = 12
    /\ Len(context_file.data) = 10
    /\ context_file.data[1] = context[3]
    /\ context_file.data # context

\* the text starts with the six characters of the task marker
HasMarker(t) ==
    Len(t) >= 6 /\ SubSeq(t, 1, 6) = <<"t", "a", "s", "k", ":", " ">>

\* C18: the task router is reached only by an input that starts with
\* "task: " in exactly this spelling; every other input that is not empty
\* and not the exit command, typed or recognized from speech, becomes a
\* chat turn, whose user turn is appended to the context and saved.
C18_OnlyMarkerReachesRouter ==
    /\ []((pc = "task" \/ routed = "task" \/ kind # "none")
            => HasMarker(user_input))
    /\ [][/\ (/\ pc = "await"
              /\ event' \notin {"raise", "idle", "exit"}
              /\ user_input' # <<>>
              /\ ~HasMarker(user_input'))
             => (pc' = "chat" /\ routed' = "chat")
          /\ (pc = "chat")
             => /\ ~HasMarker(user_input)
                /\ Len(context') = Len(context) + 2
                /\ context'[Len(context) + 1] =
                     <<"Y", "o", "u", ":", " ">> \o user_input
                /\ context_file'.exists /\ context_file'.valid
                /\ \E i \in 1..Len(context_file'.data) :
                     context_file'.data[i] =
                       <<"Y", "o", "u", ":", " ">> \o user_input
         ]_vars

\* "Task: dance" was answered as a chat turn and is in the context file
C18_Witness ==
    /\ TurnCompleted
    /\ user_input = IN_CASED_MARKER
    /\ routed = "chat"
    /\ kind = "none"
    /\ \E i \in 1..Len(context_file.data) :
         context_file.data[i] = ROLE_USER \o IN_CASED_MARKER

\* C19: at the console only a typed line is taken as the exit or the voice
\* command, and it is taken so when the whole line is "exit" or "voice" in
\* any letter case; a recognized text is the turn's input whatever it says,
\* so a spoken "exit" or "voice" is routed as a chat turn, the session goes
\* on, and no second capture replaces it.
C19_CommandsOnlyTyped ==
    [][(pc = "await" /\ mode = "console" /\ event' # "raise")
         => /\ (event' = "exit")
                 <=> (~voiced' /\ Lower(user_input') = STR_EXIT)
            /\ (event' = "exit") => pc' = "done"
            /\ ~voiced' => Lower(user_input') # STR_VOICE
            /\ voiced'
                 => /\ event' = "route"
                    /\ pc' \in {"task", "chat"}
                    /\ user_input' \in {HEARD_TASK, STR_EXIT, STR_VOICE,
                                        MSG_UNINTELLIGIBLE, MSG_NO_SPEECH}
            /\ (voiced' /\ user_input' \in {STR_EXIT, STR_VOICE})
                 => (pc' = "chat" /\ routed' = "chat")
      ]_vars

\* a spoken "exit" was answered as a chat turn and the console awaits input
C19_Witness ==
    /\ TurnCompleted
    /\ mode = "console"
    /\ voiced
    /\ user_input = STR_EXIT
    /\ routed = "chat"
    /\ context[Len(context) - 1] = ROLE_USER \o STR_EXIT

=============================================================================
